---- MODULE Spec2Model ----
(***************************************************************************)
(* Model of bread_returns_aggregator.py: the core helpers (norm_text,      *)
(* to_number, is_date_sheet, cell_top_left_of_merge, read_cell,            *)
(* find_table_anchors, detect_store_columns, data_row_end) as operators    *)
(* and scan_workbook as a state machine.                                   *)
(*                                                                         *)
(* Text is a sequence of one-character strings.  TLA+ strings are ASCII,   *)
(* so a Latin letter stands for the Cyrillic letter of the source          *)
(* ("v","i","d"," ","h","l","e","b","a" for ANCHOR_TEXT) and a character   *)
(* outside ASCII is written as its code point ("U+2011").                  *)
(*                                                                         *)
(* A cell value is a record [k, n, s]: k = "none" (absent), "int" (a       *)
(* number, n) or "str" (text, s).  Amounts are fixed-point integers in     *)
(* units of 10^-FracDigits, so that "1,5" is a number of the model.        *)
(***************************************************************************)
EXTENDS Integers, Sequences, FiniteSets, TLC

\* ------------------------------------------------------------------ bounds
\* Sheets of a workbook.
MaxSheets == 2
\* Rows and columns a sheet has beyond the layouts' own cells.
ExtraRows == 0
ExtraCols == 0
\* Decimal places an amount keeps.
FracDigits == 1

\* ------------------------------------------------------------ cell values
None == [k |-> "none", n |-> 0, s |-> <<>>]
Num(n) == [k |-> "int", n |-> n, s |-> <<>>]
Text(s) == [k |-> "str", n |-> 0, s |-> s]

RECURSIVE Pow10(_)
Pow10(e) == IF e <= 0 THEN 1 ELSE 10 * Pow10(e - 1)

Digits == <<"0", "1", "2", "3", "4", "5", "6", "7", "8", "9">>
IsDigit(c) == \E i \in 1..10 : Digits[i] = c
DigitVal(c) == (CHOOSE i \in 1..10 : Digits[i] = c) - 1

\* str(n) of a Python int.
RECURSIVE NatStr(_)
NatStr(n) == IF n < 10 THEN <<Digits[n + 1]>>
             ELSE Append(NatStr(n \div 10), Digits[(n % 10) + 1])
IntStr(n) == IF n < 0 THEN <<"-">> \o NatStr(0 - n) ELSE NatStr(n)

\* str(v) of a cell value that is not None.
PyStr(v) == IF v.k = "int" THEN IntStr(v.n) ELSE v.s

\* bool(v): None, 0 and "" are falsy.
Truthy(v) == CASE v.k = "none" -> FALSE
               [] v.k = "int" -> v.n # 0
               [] OTHER -> v.s # <<>>

\* str.isspace() and the regex class \s, on the model's alphabet.
IsSpace(c) == c \in {" ", "U+00A0"}

RECURSIVE LStrip(_)
LStrip(s) == IF s # <<>> /\ IsSpace(Head(s)) THEN LStrip(Tail(s)) ELSE s
RECURSIVE RStrip(_)
RStrip(s) == IF s # <<>> /\ IsSpace(s[Len(s)]) THEN RStrip(SubSeq(s, 1, Len(s) - 1)) ELSE s
\* str.strip()
Strip(s) == RStrip(LStrip(s))

\* unicodedata.normalize("NFKC", s), per character of the model's alphabet:
\* the no-break space decomposes to a space and the non-breaking hyphen
\* U+2011 to the hyphen U+2010.
NFKC(c) == CASE c = "U+00A0" -> " "
             [] c = "U+2011" -> "U+2010"
             [] OTHER -> c

\* .replace("‑", "-").replace("–", "-").replace("—", "-")
DashToHyphen(c) == IF c \in {"U+2011", "U+2013", "U+2014"} THEN "-" ELSE c

Upper == <<"A", "B", "D", "E", "H", "I", "K", "L", "P", "S", "T", "V">>
Lower == <<"a", "b", "d", "e", "h", "i", "k", "l", "p", "s", "t", "v">>
\* str.lower(), per character.
ToLower(c) == IF \E i \in 1..Len(Upper) : Upper[i] = c
              THEN Lower[CHOOSE i \in 1..Len(Upper) : Upper[i] = c]
              ELSE c

MapChars(s) == [i \in 1..Len(s) |-> DashToHyphen(NFKC(s[i]))]

\* re.sub(r"\s+", " ", s)
RECURSIVE CollapseWs(_)
CollapseWs(s) ==
    IF s = <<>> THEN <<>>
    ELSE IF IsSpace(Head(s))
         THEN <<" ">> \o CollapseWs(LStrip(s))
         ELSE <<Head(s)>> \o CollapseWs(Tail(s))

norm_text(v) ==
    IF v.k = "none" THEN <<>>
    ELSE LET s == Strip(CollapseWs(MapChars(PyStr(v))))
         IN [i \in 1..Len(s) |-> ToLower(s[i])]

\* The longest run of digits at the head of s.
RECURSIVE DigitRun(_)
DigitRun(s) == IF s # <<>> /\ IsDigit(Head(s)) THEN <<Head(s)>> \o DigitRun(Tail(s)) ELSE <<>>

RECURSIVE DigitsVal(_)
DigitsVal(d) == IF d = <<>> THEN 0
                ELSE 10 * DigitsVal(SubSeq(d, 1, Len(d) - 1)) + DigitVal(d[Len(d)])

\* float() of the match of -?\d+(?:\.\d+)? at the head of s, in units of
\* 10^-FracDigits; s starts with a digit, or with "-" and a digit.
MatchVal(s) ==
    LET neg == Head(s) = "-"
        t == IF neg THEN Tail(s) ELSE s
        ip == DigitRun(t)
        rest == SubSeq(t, Len(ip) + 1, Len(t))
        fp == IF rest # <<>> /\ Head(rest) = "." THEN DigitRun(Tail(rest)) ELSE <<>>
        fk == SubSeq(fp, 1, IF Len(fp) < FracDigits THEN Len(fp) ELSE FracDigits)
        mag == DigitsVal(ip) * Pow10(FracDigits) + DigitsVal(fk) * Pow10(FracDigits - Len(fk))
    IN IF neg THEN 0 - mag ELSE mag

\* re.search(r"-?\d+(?:\.\d+)?", s): the leftmost match, 0.0 without one.
RECURSIVE SearchNumber(_)
SearchNumber(s) ==
    IF s = <<>> THEN 0
    ELSE IF IsDigit(Head(s)) \/ (Head(s) = "-" /\ Len(s) > 1 /\ IsDigit(s[2]))
         THEN MatchVal(s)
         ELSE SearchNumber(Tail(s))

to_number(v) ==
    CASE v.k = "none" -> 0
      [] v.k = "int" -> v.n * Pow10(FracDigits)
      [] OTHER -> LET s == Strip(v.s)
                  IN SearchNumber([i \in 1..Len(s) |-> IF s[i] = "," THEN "." ELSE s[i]])

\* ------------------------------------------------------- program constants
\* "вид хлеба"
ANCHOR_TEXT == <<"v", "i", "d", " ", "h", "l", "e", "b", "a">>
\* "п-ка"
SUB_PKA == <<"p", "-", "k", "a">>
\* "в-ат"
SUB_VAT == <<"v", "-", "a", "t">>
\* "(без названия)"
Unnamed == <<"(", "b", "e", "z", " ", "n", "a", "z", "v", "a", "n", "i", "y", "a", ")">>

\* ------------------------------------------------------------- sheet names
\* A date is [y, m, d]; NoDate is is_date_sheet's None.
NoDate == [y |-> 0, m |-> 0, d |-> 0]
IsLeap(y) == (y % 4 = 0 /\ y % 100 # 0) \/ y % 400 = 0
DaysIn(y, m) == CASE m \in {4, 6, 9, 11} -> 30
                  [] m = 2 -> IF IsLeap(y) THEN 29 ELSE 28
                  [] OTHER -> 31

\* re.fullmatch(r"\d{2}\.\d{2}\.\d{4}", name)
IsDateShape(name) ==
    /\ Len(name) = 10
    /\ \A i \in {1, 2, 4, 5, 7, 8, 9, 10} : IsDigit(name[i])
    /\ name[3] = "." /\ name[6] = "."

\* datetime.strptime(name, "%d.%m.%Y"), a ValueError giving None.
is_date_sheet(name) ==
    IF ~IsDateShape(name) THEN NoDate
    ELSE LET d == DigitsVal(SubSeq(name, 1, 2))
             m == DigitsVal(SubSeq(name, 4, 5))
             y == DigitsVal(SubSeq(name, 7, 10))
         IN IF y >= 1 /\ m \in 1..12 /\ d >= 1 /\ d <= DaysIn(y, m)
            THEN [y |-> y, m |-> m, d |-> d]
            ELSE NoDate

\* a <= b on datetimes at midnight.
DateLE(a, b) ==
    \/ a.y < b.y
    \/ a.y = b.y /\ a.m < b.m
    \/ a.y = b.y /\ a.m = b.m /\ a.d <= b.d

\* ------------------------------------------------------------------ sheets
\* A worksheet is [name, max_row, max_column, cells, merged]: cells maps
\* <<r, c>> of 1..max_row x 1..max_column to a value, merged is the list
\* ws.merged_cells.ranges of [min_row, min_col, max_row, max_col].

\* ws.cell(r, c).value for r, c >= 1: a cell the sheet does not hold is None.
CellValue(ws, r, c) == IF <<r, c>> \in DOMAIN ws.cells THEN ws.cells[<<r, c>>] ELSE None

InRange(mr, row, col) ==
    mr.min_row <= row /\ row <= mr.max_row /\ mr.min_col <= col /\ col <= mr.max_col

\* cell_top_left_of_merge with the test of the columns left out.
TopLeftByRowsOnly(ws, row, col) ==
    LET hits == {i \in 1..Len(ws.merged) :
                    ws.merged[i].min_row <= row /\ row <= ws.merged[i].max_row}
    IN IF hits = {} THEN <<row, col>>
       ELSE LET i == CHOOSE j \in hits : \A k \in hits : j <= k
            IN <<ws.merged[i].min_row, ws.merged[i].min_col>>

cell_top_left_of_merge(ws, row, col) ==
    LET hits == {i \in 1..Len(ws.merged) : InRange(ws.merged[i], row, col)}
    IN IF hits = {} THEN <<row, col>>
       ELSE LET i == CHOOSE j \in hits : \A k \in hits : j <= k
            IN <<ws.merged[i].min_row, ws.merged[i].min_col>>

\* ws.cell(r0, c0) raises ValueError for a row or column below 1.
CellRaises(rc) == rc[1] < 1 \/ rc[2] < 1

read_cell(ws, row, col) ==
    LET rc == cell_top_left_of_merge(ws, row, col)
    IN CellValue(ws, rc[1], rc[2])

\* The coordinates a read_cell(ws, row, col) handles: the one asked for
\* and the one it resolves to.
ReadCoords(ws, row, col) == {<<row, col>>, cell_top_left_of_merge(ws, row, col)}

\* The k-th cell (from 0) of the row-major walk of 1..last_row x 1..last_col.
RECURSIVE AnchorsFrom(_, _, _, _)
AnchorsFrom(ws, k, last_row, last_col) ==
    IF k >= last_row * last_col THEN <<>>
    ELSE LET r == (k \div last_col) + 1
             c == (k % last_col) + 1
             rest == AnchorsFrom(ws, k + 1, last_row, last_col)
         IN IF norm_text(read_cell(ws, r, c)) = ANCHOR_TEXT
            THEN <<(<<r, c>>)>> \o rest
            ELSE rest

find_table_anchors(ws, last_row, last_col) == AnchorsFrom(ws, 0, last_row, last_col)

\* str(name_raw).strip() if name_raw else ""
Display(raw) == IF Truthy(raw) THEN Strip(PyStr(raw)) ELSE <<>>

StoreName(name_raw) == IF Display(name_raw) # <<>> THEN Display(name_raw) ELSE Unnamed

\* The while loop of detect_store_columns from column c.
RECURSIVE DetectFrom(_, _, _, _, _)
DetectFrom(ws, hdr_row, sub_row, c, last_col) ==
    IF ~(c <= last_col - 1) THEN <<>>
    ELSE LET pka == norm_text(read_cell(ws, sub_row, c))
             vat == norm_text(read_cell(ws, sub_row, c + 1))
         IN IF pka = SUB_PKA /\ vat = SUB_VAT
            THEN <<[name |-> StoreName(read_cell(ws, hdr_row, c)),
                    pka_col |-> c, vat_col |-> c + 1]>>
                 \o DetectFrom(ws, hdr_row, sub_row, c + 3, last_col)
            ELSE DetectFrom(ws, hdr_row, sub_row, c + 1, last_col)

detect_store_columns(ws, hdr_row, sub_row, start_col, last_col) ==
    DetectFrom(ws, hdr_row, sub_row, start_col, last_col)

\* The while loop of data_row_end from row r with `blank` blank rows behind.
RECURSIVE DataEndFrom(_, _, _, _, _)
DataEndFrom(ws, bread_col, r, blank, last_row) ==
    IF ~(r <= last_row) THEN r - blank - 1
    ELSE IF norm_text(read_cell(ws, r, bread_col)) = <<>>
         THEN IF blank + 1 >= 2
              THEN r - (blank + 1) - 1
              ELSE DataEndFrom(ws, bread_col, r + 1, blank + 1, last_row)
         ELSE DataEndFrom(ws, bread_col, r + 1, 0, last_row)

data_row_end(ws, bread_col, start_row, last_row) ==
    DataEndFrom(ws, bread_col, start_row, 0, last_row)

\* ------------------------------------------------------------- the totals
\* AddTotals with the returned amount taken off instead of added.
AddTotalsNet(tot, key, b, rv) ==
    IF key \in DOMAIN tot
    THEN [tot EXCEPT ![key] = [brought |-> @.brought + b, returned |-> @.returned - rv]]
    ELSE tot @@ (key :> [brought |-> b, returned |-> 0 - rv])

\* defaultdict(lambda: {"brought": 0.0, "returned": 0.0}) and its two += .
AddTotals(tot, key, b, rv) ==
    IF key \in DOMAIN tot
    THEN [tot EXCEPT ![key] = [brought |-> @.brought + b, returned |-> @.returned + rv]]
    ELSE tot @@ (key :> [brought |-> b, returned |-> rv])

\* AddCell with the driver's two sums crossed over.
AddCellCrossed(acc, ws, r, st, has_driver, driver_display) ==
    LET b == to_number(read_cell(ws, r, st.pka_col))
        rv == to_number(read_cell(ws, r, st.vat_col))
    IN [stores |-> AddTotals(acc.stores, st.name, b, rv),
        drivers |-> IF has_driver
                    THEN AddTotals(acc.drivers, driver_display, rv, b)
                    ELSE acc.drivers]

\* The body of the inner loop of scan_workbook for row r and store st, on
\* acc = [stores, drivers].
AddCell(acc, ws, r, st, has_driver, driver_display) ==
    LET b == to_number(read_cell(ws, r, st.pka_col))
        rv == to_number(read_cell(ws, r, st.vat_col))
    IN [stores |-> AddTotals(acc.stores, st.name, b, rv),
        drivers |-> IF has_driver
                    THEN AddTotals(acc.drivers, driver_display, b, rv)
                    ELSE acc.drivers]

\* The two loops "for r in range(data_start, data_end + 1): for st in stores",
\* from row r and the k-th store.
RECURSIVE SumRows(_, _, _, _, _, _, _, _)
SumRows(acc, ws, r, k, data_end, stores, has_driver, driver_display) ==
    IF r > data_end THEN acc
    ELSE IF k > Len(stores)
         THEN SumRows(acc, ws, r + 1, 1, data_end, stores, has_driver, driver_display)
         ELSE SumRows(AddCell(acc, ws, r, stores[k], has_driver, driver_display),
                      ws, r, k + 1, data_end, stores, has_driver, driver_display)

\* has_driver = bool(norm_text(driver_raw))
HasDriver(driver_raw) == norm_text(driver_raw) # <<>>

\* ------------------------------------------------- coordinates that are read
WindowReads(ws, last_row, last_col) ==
    UNION {ReadCoords(ws, r, c) : r \in 1..last_row, c \in 1..last_col}

RECURSIVE DetectReads(_, _, _, _, _)
DetectReads(ws, hdr_row, sub_row, c, last_col) ==
    IF ~(c <= last_col - 1) THEN {}
    ELSE LET here == ReadCoords(ws, sub_row, c) \cup ReadCoords(ws, sub_row, c + 1)
         IN IF norm_text(read_cell(ws, sub_row, c)) = SUB_PKA
               /\ norm_text(read_cell(ws, sub_row, c + 1)) = SUB_VAT
            THEN here \cup ReadCoords(ws, hdr_row, c)
                      \cup DetectReads(ws, hdr_row, sub_row, c + 3, last_col)
            ELSE here \cup DetectReads(ws, hdr_row, sub_row, c + 1, last_col)

RECURSIVE DataEndReads(_, _, _, _, _)
DataEndReads(ws, bread_col, r, blank, last_row) ==
    IF ~(r <= last_row) THEN {}
    ELSE ReadCoords(ws, r, bread_col) \cup
         (IF norm_text(read_cell(ws, r, bread_col)) = <<>>
          THEN IF blank + 1 >= 2 THEN {}
               ELSE DataEndReads(ws, bread_col, r + 1, blank + 1, last_row)
          ELSE DataEndReads(ws, bread_col, r + 1, 0, last_row))

SumReads(ws, data_start, data_end, stores) ==
    UNION {ReadCoords(ws, r, stores[k].pka_col) \cup ReadCoords(ws, r, stores[k].vat_col) :
           r \in data_start..data_end, k \in 1..Len(stores)}

\* ---------------------------------------------------------------- inputs
\* Cells as a workbook's author writes them.
AnchorCell == Text(<<"V", "i", "d", " ", " ", "H", "l", "e", "b", "a">>)
QtyCell == Text(<<"K", "-", "v", "o">>)
PkaCell == Text(<<" ", "P", "U+2013", "k", "a">>)
VatCell == Text(<<"V", "-", "A", "T", " ">>)
OstCell == Text(<<"o", "s", "t">>)
BreadCell == Text(<<"h", "l", "e", "b">>)
StoreA == Text(<<"S", "a">>)
StoreB == Text(<<"S", "b", " ">>)
Ivan == Text(<<"I", "v", "a", "n">>)
Blank == Text(<<" ">>)

DriverVals == {None, Ivan, Blank, Num(0), Num(7)}
HeaderVals == {StoreA, None, Num(0), Blank, Num(12)}
AmountStyles == {"int", "neg", "text"}

\* The brought and the returned cell of data row i, store k.
Amounts(style, i, k) ==
    CASE style = "int" -> <<Num(i + k), Num(i)>>
      [] style = "neg" -> <<Num(i), Num(0 - k)>>
      [] OTHER -> <<Text(<<"1", ",", "5">>), Text(<<"a", "-", "2", "b">>)>>

\* The function of a set of <<coordinate, value>> pairs with distinct coordinates.
PutOf(S) == [rc \in {p[1] : p \in S} |-> (CHOOSE p \in S : p[1] = rc)[2]]

\* A table as the source's docstring lays it out: the anchor at (ar, ac),
\* the driver above it, the quantity column to its right, then per store
\* the name above [brought, returned, stock]; breads[i] is the anchor
\* column's cell of data row i.
Table(ar, ac, driver, names, breads, style) ==
    PutOf({<<(<<ar, ac>>), AnchorCell>>, <<(<<ar, ac + 1>>), QtyCell>>}
          \cup (IF ar > 1 THEN {<<(<<ar - 1, ac>>), driver>>} ELSE {})
          \cup (IF ar > 1 THEN {<<(<<ar - 1, ac + 3 * k - 1>>), names[k]>> : k \in 1..Len(names)}
                ELSE {})
          \cup {<<(<<ar, ac + 3 * k - 1>>), PkaCell>> : k \in 1..Len(names)}
          \cup {<<(<<ar, ac + 3 * k>>), VatCell>> : k \in 1..Len(names)}
          \cup {<<(<<ar, ac + 3 * k + 1>>), OstCell>> : k \in 1..Len(names)}
          \cup {<<(<<ar + i, ac>>), breads[i]>> : i \in 1..Len(breads)}
          \cup {<<(<<ar + i, ac + 3 * k - 1>>), Amounts(style, i, k)[1]>> :
                i \in 1..Len(breads), k \in 1..Len(names)}
          \cup {<<(<<ar + i, ac + 3 * k>>), Amounts(style, i, k)[2]>> :
                i \in 1..Len(breads), k \in 1..Len(names)})

MkSheet(name, rows, cols, put, merged) ==
    [name |-> name, max_row |-> rows + ExtraRows, max_column |-> cols + ExtraCols,
     cells |-> [rc \in (1..(rows + ExtraRows)) \X (1..(cols + ExtraCols)) |->
                   IF rc \in DOMAIN put THEN put[rc] ELSE None],
     merged |-> merged]

Rect(r1, c1, r2, c2) == [min_row |-> r1, min_col |-> c1, max_row |-> r2, max_col |-> c2]

\* Sheet names.
Jan05 == <<"0", "5", ".", "0", "1", ".", "2", "0", "2", "4">>
Jan10 == <<"1", "0", ".", "0", "1", ".", "2", "0", "2", "4">>
Jan20 == <<"2", "0", ".", "0", "1", ".", "2", "0", "2", "4">>
Feb31 == <<"3", "1", ".", "0", "2", ".", "2", "0", "2", "4">>
IsoDay == <<"2", "0", "2", "4", ".", "0", "1", ".", "0", "1">>
Itogi == <<"I", "t", "o", "g", "i">>
SheetNames == {Jan05, Jan10, Jan20, Feb31, IsoDay, Itogi}

Day(y, m, d) == [y |-> y, m |-> m, d |-> d]
DateRanges == {<<Day(2024, 1, 1), Day(2024, 1, 10)>>,
               <<Day(2024, 1, 5), Day(2024, 1, 5)>>,
               <<Day(2024, 1, 10), Day(2024, 12, 31)>>}

\* The anchor column of a table's data rows: every pattern of bread names
\* and blank cells (absent, or white space) over four rows.
BreadColumns == [1..4 -> {BreadCell, None, Blank}]

\* One table with up to two stores, the anchor in row 1 or 2.
SingleSheets ==
    {MkSheet(Jan05, 6, 8, Table(2, 1, driver, names, breads, style), <<>>) :
        driver \in DriverVals, names \in {<<>>, <<StoreA>>, <<StoreA, StoreB>>},
        breads \in BreadColumns, style \in AmountStyles}
    \cup {MkSheet(Jan05, 6, 8, Table(1, 1, None, names, breads, "int"), <<>>) :
        names \in {<<>>, <<StoreA>>}, breads \in BreadColumns}

\* The driver's name and the stores' names in merged cells.
MergedSheets ==
    {MkSheet(Jan05, 6, 8, Table(2, 1, driver, <<StoreA, StoreB>>, breads, "int"),
             <<Rect(1, 1, 1, 2), Rect(1, 3, 1, 5), Rect(1, 6, 1, 8)>>) :
        driver \in {None, Ivan}, breads \in BreadColumns}

Two == <<BreadCell, BreadCell>>
\* Two tables in one sheet: side by side in the same rows, stacked with one
\* blank row between them, stacked two blank rows apart.
TwoTableSheets ==
    {MkSheet(Jan05, 6, 10,
             Table(2, 1, d1, <<StoreA>>, Two, "int") @@ Table(2, 6, d2, <<StoreB>>, Two, "int"),
             <<>>) : d1 \in {None, Ivan}, d2 \in {None, Num(7)}}
    \cup {MkSheet(Jan05, 10, 5,
             Table(2, 1, d1, <<StoreA>>, Two, "int") @@ Table(6, 1, None, <<StoreB>>, Two, "int"),
             <<>>) : d1 \in {None, Ivan}}
    \cup {MkSheet(Jan05, 12, 5,
             Table(2, 1, d1, <<StoreA>>, Two, "int") @@ Table(8, 1, None, <<StoreB>>, Two, "int"),
             <<>>) : d1 \in {None, Ivan}}

\* The scan window: the defaults, or one that cuts through the tables.
MAX_ROWS == 320
MAX_COLS == 25
Windows == {<<MAX_ROWS, MAX_COLS>>, <<4, 4>>, <<5, 7>>}

\* The sheets of the many-sheet workbooks: a table, a table whose anchor is
\* in row 1, no table.
PlainSheets ==
    {MkSheet(<<>>, 4, 5, Table(2, 1, Ivan, <<StoreA>>, Two, "int"), <<>>),
     MkSheet(<<>>, 3, 5, Table(1, 1, None, <<StoreA>>, Two, "int"), <<>>),
     MkSheet(<<>>, 1, 1, PutOf({}), <<>>)}

\* The sequences of 1..n distinct sheet names.
RECURSIVE NameLists(_)
NameLists(n) ==
    IF n = 0 THEN {<<>>}
    ELSE LET shorter == NameLists(n - 1)
         IN shorter \cup {Append(l, nm) : l \in {s \in shorter : Len(s) = n - 1},
                                          nm \in SheetNames}

Workbooks ==
    {<<s>> : s \in SingleSheets \cup MergedSheets \cup TwoTableSheets}
    \cup {[i \in 1..Len(names) |-> [content[i] EXCEPT !.name = names[i]]] :
            names \in {l \in NameLists(MaxSheets) :
                         l # <<>> /\ \A i, j \in 1..Len(l) : i # j => l[i] # l[j]},
            content \in [1..MaxSheets -> PlainSheets]}

\* ----------------------------------------------------------- scan_workbook
VARIABLES
    wb,              \* the workbook: its sheets, in the order of wb.sheetnames
    date_from, date_to, max_rows, max_cols,    \* the arguments
    pc,              \* "load", "sheet", "anchor", "done"; "error": an exception left the scan
    sheets, total, done,
    si,              \* the position of "for name in sheets"
    anchors,
    ai,              \* the position of "for (anchor_row, anchor_col) in anchors"
    tables,          \* the locals of the loop body, per anchor of the sheet so far
    stores_totals, drivers_totals,
    progress,        \* the calls of progress_cb, in order
    visited,         \* the sheets find_table_anchors was run on, in order
    reads,           \* the coordinates asked of a worksheet
    result,          \* what scan_workbook returned
    call             \* a helper's call and its result, in the helpers' specifications

vars == <<wb, date_from, date_to, max_rows, max_cols, pc, sheets, total, done, si,
          anchors, ai, tables, stores_totals, drivers_totals, progress, visited,
          reads, result, call>>

NoTable == [anchor |-> <<0, 0>>, outcome |-> "none", stores |-> <<>>,
            data_start |-> 0, data_end |-> 0, has_driver |-> FALSE,
            driver_display |-> <<>>]
NoResult == [returned |-> FALSE]
NoCall == [fn |-> "none"]
Empty == [key \in {} |-> [brought |-> 0, returned |-> 0]]

\* wb[name]
SheetOf(name) == wb[CHOOSE i \in 1..Len(wb) : wb[i].name = name]

\* min(ws.max_row or max_rows, max_rows), min(ws.max_column or max_cols, max_cols)
Min(a, b) == IF a <= b THEN a ELSE b
LastRow(ws) == Min(IF ws.max_row = 0 THEN max_rows ELSE ws.max_row, max_rows)
LastCol(ws) == Min(IF ws.max_column = 0 THEN max_cols ELSE ws.max_column, max_cols)

Selected(name) ==
    LET dt == is_date_sheet(name)
    IN dt # NoDate /\ DateLE(date_from, dt) /\ DateLE(dt, date_to)

\* [n for n in wb.sheetnames if (dt := is_date_sheet(n)) and date_from <= dt <= date_to]
RECURSIVE SelectFrom(_)
SelectFrom(i) ==
    IF i > Len(wb) THEN <<>>
    ELSE IF Selected(wb[i].name) THEN <<wb[i].name>> \o SelectFrom(i + 1)
         ELSE SelectFrom(i + 1)

Init ==
    /\ wb \in Workbooks
    /\ \E rg \in DateRanges : date_from = rg[1] /\ date_to = rg[2]
    /\ \E w \in Windows : max_rows = w[1] /\ max_cols = w[2]
    /\ (Len(wb) > 1 => max_rows = MAX_ROWS)
    /\ (Len(wb) = 1 => date_from = Day(2024, 1, 1))
    /\ pc = "load"
    /\ sheets = <<>> /\ total = 0 /\ done = 0 /\ si = 0
    /\ anchors = <<>> /\ ai = 0 /\ tables = <<>>
    /\ stores_totals = Empty /\ drivers_totals = Empty
    /\ progress = <<>> /\ visited = <<>> /\ reads = {}
    /\ result = NoResult /\ call = NoCall

\* Lines 161-167: the empty totals, the workbook, the selected sheets.
Load ==
    /\ pc = "load"
    /\ sheets' = SelectFrom(1)
    /\ total' = Len(sheets')
    /\ done' = 0
    /\ si' = 1
    /\ pc' = "sheet"
    /\ UNCHANGED <<wb, date_from, date_to, max_rows, max_cols, anchors, ai, tables,
                   stores_totals, drivers_totals, progress, visited, reads, result, call>>

\* Lines 171-177: the next sheet, its bounds and its anchors.
BeginSheet ==
    /\ pc = "sheet" /\ si <= Len(sheets)
    /\ LET ws == SheetOf(sheets[si])
       IN /\ anchors' = find_table_anchors(ws, LastRow(ws), LastCol(ws))
          /\ reads' = reads \cup WindowReads(ws, LastRow(ws), LastCol(ws))
    /\ visited' = Append(visited, sheets[si])
    /\ ai' = 1
    /\ tables' = <<>>
    /\ pc' = "anchor"
    /\ UNCHANGED <<wb, date_from, date_to, max_rows, max_cols, sheets, total, done, si,
                   stores_totals, drivers_totals, progress, result, call>>

\* Lines 195-216 on acc = [stores, drivers]: the two skips and the sums.
ProcessTable(acc, ws, stores, data_start, data_end, has_driver, driver_display) ==
    IF stores = <<>> THEN acc
    ELSE IF data_end < data_start THEN acc
    ELSE SumRows(acc, ws, data_start, 1, data_end, stores, has_driver, driver_display)

\* Lines 182-216: the body of the loop over the anchors, for one anchor.
ProcessAnchor ==
    /\ pc = "anchor" /\ ai <= Len(anchors)
    /\ LET ws == SheetOf(sheets[si])
           anchor_row == anchors[ai][1]
           anchor_col == anchors[ai][2]
           last_row == LastRow(ws)
           last_col == LastCol(ws)
           driver_raw == read_cell(ws, anchor_row - 1, anchor_col)
           driver_display == Display(driver_raw)
           has_driver == HasDriver(driver_raw)
           hdr_row == anchor_row - 1
           sub_row == anchor_row
           data_start == anchor_row + 1
           bread_col == anchor_col
           first_store_col == anchor_col + 2
           stores == detect_store_columns(ws, hdr_row, sub_row, first_store_col, last_col)
           data_end == data_row_end(ws, bread_col, data_start, last_row)
           acc == ProcessTable([stores |-> stores_totals, drivers |-> drivers_totals],
                               ws, stores, data_start, data_end, has_driver, driver_display)
       IN IF CellRaises(cell_top_left_of_merge(ws, anchor_row - 1, anchor_col))
          THEN \* ws.cell(0, c) raises ValueError, which nothing catches
               /\ pc' = "error"
               /\ reads' = reads \cup ReadCoords(ws, anchor_row - 1, anchor_col)
               /\ tables' = Append(tables, [NoTable EXCEPT !.anchor = anchors[ai],
                                                            !.outcome = "raised"])
               /\ UNCHANGED <<ai, stores_totals, drivers_totals>>
          ELSE /\ pc' = "anchor"
               /\ ai' = ai + 1
               /\ stores_totals' = acc.stores
               /\ drivers_totals' = acc.drivers
               /\ tables' = Append(tables,
                      [anchor |-> anchors[ai],
                       outcome |-> IF stores = <<>> THEN "no stores"
                                   ELSE IF data_end < data_start THEN "no rows"
                                   ELSE "summed",
                       stores |-> stores,
                       data_start |-> data_start,
                       data_end |-> IF stores = <<>> THEN 0 ELSE data_end,
                       has_driver |-> has_driver,
                       driver_display |-> driver_display])
               /\ reads' = reads
                    \cup ReadCoords(ws, anchor_row - 1, anchor_col)
                    \cup DetectReads(ws, hdr_row, sub_row, first_store_col, last_col)
                    \cup (IF stores = <<>> THEN {}
                          ELSE DataEndReads(ws, bread_col, data_start, 0, last_row))
                    \cup (IF stores = <<>> \/ data_end < data_start THEN {}
                          ELSE SumReads(ws, data_start, data_end, stores))
    /\ UNCHANGED <<wb, date_from, date_to, max_rows, max_cols, sheets, total, done, si,
                   anchors, progress, visited, result, call>>

\* Lines 218-220: the sheet is finished.
EndSheet ==
    /\ pc = "anchor" /\ ai > Len(anchors)
    /\ done' = done + 1
    /\ progress' = Append(progress, <<done', total>>)
    /\ si' = si + 1
    /\ pc' = "sheet"
    /\ UNCHANGED <<wb, date_from, date_to, max_rows, max_cols, sheets, total, anchors, ai,
                   tables, stores_totals, drivers_totals, visited, reads, result, call>>

\* Lines 222-230: meta and the return.
Return ==
    /\ pc = "sheet" /\ si > Len(sheets)
    /\ result' = [returned |-> TRUE, stores |-> stores_totals, drivers |-> drivers_totals,
                  meta |-> [sheets_scanned |-> total, from |-> date_from, to |-> date_to,
                            max_rows |-> max_rows, max_cols |-> max_cols]]
    /\ pc' = "done"
    /\ UNCHANGED <<wb, date_from, date_to, max_rows, max_cols, sheets, total, done, si,
                   anchors, ai, tables, stores_totals, drivers_totals, progress, visited,
                   reads, call>>

Next == Load \/ BeginSheet \/ ProcessAnchor \/ EndSheet \/ Return

Spec == Init /\ [][Next]_vars

\* ------------------------------------------------- the helpers, one by one
\* Rows of the data_row_end sheets, columns of the detect_store_columns
\* sheets, merged regions of the cell_top_left_of_merge sheets.
ColRows == 5
LabelCols == 5
MaxMerges == 2

HelperInit(inputs) ==
    /\ wb \in {<<s>> : s \in inputs}
    /\ date_from = Day(2024, 1, 1) /\ date_to = Day(2024, 1, 10)
    /\ max_rows = MAX_ROWS /\ max_cols = MAX_COLS
    /\ pc = "helper"
    /\ sheets = <<>> /\ total = 0 /\ done = 0 /\ si = 0
    /\ anchors = <<>> /\ ai = 0 /\ tables = <<>>
    /\ stores_totals = Empty /\ drivers_totals = Empty
    /\ progress = <<>> /\ visited = <<>> /\ reads = {}
    /\ result = NoResult /\ call = NoCall

Returns(c) ==
    /\ pc = "helper" /\ call = NoCall
    /\ call' = c
    /\ UNCHANGED <<wb, date_from, date_to, max_rows, max_cols, pc, sheets, total, done,
                   si, anchors, ai, tables, stores_totals, drivers_totals, progress,
                   visited, reads, result>>

\* One column of bread names and blank cells, rows 2-3 merged or not.
ColumnSheets ==
    {[name |-> Jan05, max_row |-> ColRows, max_column |-> 1,
      cells |-> [rc \in (1..ColRows) \X {1} |-> col[rc[1]]],
      merged |-> merged] :
        col \in [1..ColRows -> {BreadCell, None, Blank}],
        merged \in {<<>>, <<Rect(2, 1, 3, 1)>>}}

DataRowEndInit == HelperInit(ColumnSheets)

CallDataRowEnd ==
    \E start_row \in 1..(ColRows + 1), last_row \in 1..ColRows :
        Returns([fn |-> "data_row_end", bread_col |-> 1, start_row |-> start_row,
                 last_row |-> last_row,
                 result |-> data_row_end(wb[1], 1, start_row, last_row)])

SpecDataRowEnd == DataRowEndInit /\ [][CallDataRowEnd]_vars

\* A subheader row (row 2) of labels and other cells under a header row
\* (row 1) of names, columns 2-4 of the header merged or not.
LabelSheets ==
    {[name |-> Jan05, max_row |-> 2, max_column |-> LabelCols,
      cells |-> [rc \in {1, 2} \X (1..LabelCols) |->
                    IF rc[1] = 2 THEN sub[rc[2]]
                    ELSE IF rc[2] = 2 THEN StoreB ELSE h],
      merged |-> merged] :
        sub \in [1..LabelCols -> {PkaCell, VatCell, None}],
        h \in HeaderVals,
        merged \in {<<>>, <<Rect(1, 2, 1, 4)>>}}

DetectInit == HelperInit(LabelSheets)

CallDetect ==
    \E start_col \in 1..3, last_col \in (LabelCols - 1)..LabelCols :
        Returns([fn |-> "detect_store_columns", hdr_row |-> 1, sub_row |-> 2,
                 start_col |-> start_col, last_col |-> last_col,
                 result |-> detect_store_columns(wb[1], 1, 2, start_col, last_col)])

SpecDetect == DetectInit /\ [][CallDetect]_vars

\* The rectangles of two cells or more in a sheet of 3 rows and 2 columns.
Regions ==
    {Rect(r1, c1, r2, c2) : r1 \in 1..3, r2 \in 1..3, c1 \in 1..2, c2 \in 1..2} \cap
    {mr \in [min_row : 1..3, min_col : 1..2, max_row : 1..3, max_col : 1..2] :
        mr.min_row <= mr.max_row /\ mr.min_col <= mr.max_col
        /\ (mr.min_row < mr.max_row \/ mr.min_col < mr.max_col)}

RECURSIVE RegionLists(_)
RegionLists(n) ==
    IF n = 0 THEN {<<>>}
    ELSE LET shorter == RegionLists(n - 1)
         IN shorter \cup {Append(l, mr) : l \in {s \in shorter : Len(s) = n - 1},
                                          mr \in Regions}

\* Any list of regions, overlapping ones too: load_workbook takes the
\* file's mergeCell elements as they are.
MergeSheets ==
    {[name |-> Jan05, max_row |-> 3, max_column |-> 2,
      cells |-> [rc \in (1..3) \X (1..2) |-> Num(10 * rc[1] + rc[2])],
      merged |-> merged] : merged \in RegionLists(MaxMerges)}

ResolveInit == HelperInit(MergeSheets)

CallResolve ==
    \E row \in 1..3, col \in 1..2 :
        Returns([fn |-> "cell_top_left_of_merge", row |-> row, col |-> col,
                 result |-> cell_top_left_of_merge(wb[1], row, col)])

SpecResolve == ResolveInit /\ [][CallResolve]_vars

\* ------------------------------------------------------------------ claims
Max(S) == CHOOSE m \in S : \A n \in S : n <= m
NonBlankAt(ws, r, c) == norm_text(read_cell(ws, r, c)) # <<>>

\* The rows at which a run of two blank rows starts, both inside
\* start_row..last_row.
BlankRuns(ws, c, start_row, last_row) ==
    {r \in start_row..(last_row - 1) : ~NonBlankAt(ws, r, c) /\ ~NonBlankAt(ws, r + 1, c)}

\* The non-blank rows before the first such run, or up to last_row without one.
DataRows(ws, c, start_row, last_row) ==
    LET runs == BlankRuns(ws, c, start_row, last_row)
        limit == IF runs = {} THEN last_row
                 ELSE (CHOOSE r \in runs : \A q \in runs : r <= q) - 1
    IN {r \in start_row..limit : NonBlankAt(ws, r, c)}

\* C1: data_row_end returns the last non-blank row of the anchor column
\* before the first run of two blank rows at or after start_row, or the last
\* non-blank row up to last_row when the window holds no such run; the
\* result is below start_row exactly when there is no such row.
C1_DataRowEnd ==
    call.fn = "data_row_end" =>
        LET rows == DataRows(wb[1], call.bread_col, call.start_row, call.last_row)
        IN IF rows = {} THEN call.result < call.start_row
           ELSE call.result = Max(rows)

\* The part of C1 the code keeps: without a run of two blank rows inside the
\* window the result is the last non-blank row.
C1_NoRunInWindow ==
    (call.fn = "data_row_end"
        /\ BlankRuns(wb[1], call.bread_col, call.start_row, call.last_row) = {})
    => LET rows == DataRows(wb[1], call.bread_col, call.start_row, call.last_row)
       IN IF rows = {} THEN call.result < call.start_row
          ELSE call.result = Max(rows)

\* What the code returns when the run is inside the window: one row less.
C1_RunInWindow ==
    (call.fn = "data_row_end"
        /\ BlankRuns(wb[1], call.bread_col, call.start_row, call.last_row) # {})
    => LET rows == DataRows(wb[1], call.bread_col, call.start_row, call.last_row)
       IN IF rows = {} THEN call.result = call.start_row - 2
          ELSE call.result = Max(rows) - 1

\* The cells a processed table's rows and store columns cover.
TableCells(t) ==
    IF t.outcome # "summed" THEN {}
    ELSE {<<r, c>> : r \in t.data_start..t.data_end,
                     c \in UNION {{t.stores[k].pka_col, t.stores[k].vat_col} :
                                  k \in 1..Len(t.stores)}}

\* C2: in a sheet with two anchors (stores Sa and Sb), every store column
\* pair belongs to one anchor: no cell is summed under both, so each value
\* is counted once and no value of one table is added while the other
\* anchor is processed.
C2_NoCrossContamination ==
    (Len(anchors) = 2 /\ Len(tables) = 2)
    => TableCells(tables[1]) \cap TableCells(tables[2]) = {}

\* C3: every coordinate read during a scan lies in the window: row in
\* 1..max_rows and column in 1..max_cols, wherever the anchors are.
C3_ReadsInWindow ==
    \A rc \in reads : 1 <= rc[1] /\ rc[1] <= max_rows /\ 1 <= rc[2] /\ rc[2] <= max_cols

\* What the code keeps of C3: the only coordinate outside the window is the
\* cell above an anchor of row 1, in row 0.
C3_OnlyRowZeroOutside ==
    \A rc \in reads :
        \/ 1 <= rc[1] /\ rc[1] <= max_rows /\ 1 <= rc[2] /\ rc[2] <= max_cols
        \/ /\ rc[1] = 0 /\ pc = "error"
           /\ tables[Len(tables)].anchor = <<1, rc[2]>>

\* A sum of a totals map at a key, 0.0 without the key.
Brought(tot, key) == IF key \in DOMAIN tot THEN tot[key].brought ELSE 0
Returned(tot, key) == IF key \in DOMAIN tot THEN tot[key].returned ELSE 0

\* The sum of the numbers of the cells (r, col(k)) over a set of <<r, k>>,
\* k a store of table t; which = 1 for the brought column, 2 for the returned.
RECURSIVE CellSum(_, _, _, _)
CellSum(ws, t, S, which) ==
    IF S = {} THEN 0
    ELSE LET p == CHOOSE q \in S : TRUE
             col == IF which = 1 THEN t.stores[p[2]].pka_col ELSE t.stores[p[2]].vat_col
         IN to_number(read_cell(ws, p[1], col)) + CellSum(ws, t, S \ {p}, which)

\* The rows and stores of table t that feed the key `name` of the stores map.
CellsOf(t, name) ==
    IF t.outcome # "summed" THEN {}
    ELSE {p \in (t.data_start..t.data_end) \X (1..Len(t.stores)) : t.stores[p[2]].name = name}
AllCellsOf(t) ==
    IF t.outcome # "summed" THEN {}
    ELSE (t.data_start..t.data_end) \X (1..Len(t.stores))

\* A step that processes a table without raising.
Processes == pc = "anchor" /\ pc' = "anchor" /\ Len(tables') = Len(tables) + 1

\* C4: a table whose cell above the anchor is non-empty after normalization
\* adds to drivers_map[driver] the sum, over its store pairs, of what it adds
\* to the stores map, and to no other driver; the stores map receives what
\* it would without a driver (the table's own cells, store by store); a
\* table whose cell above the anchor is blank leaves the drivers map as it is.
C4_DriverCredit ==
    [][Processes =>
        LET t == tables'[Len(tables')]
            ws == SheetOf(sheets[si])
            d == t.driver_display
        IN /\ DOMAIN stores_totals' = DOMAIN stores_totals \cup
                {t.stores[p[2]].name : p \in AllCellsOf(t)}
           /\ \A name \in DOMAIN stores_totals' :
                /\ Brought(stores_totals', name)
                     = Brought(stores_totals, name) + CellSum(ws, t, CellsOf(t, name), 1)
                /\ Returned(stores_totals', name)
                     = Returned(stores_totals, name) + CellSum(ws, t, CellsOf(t, name), 2)
           /\ t.has_driver = (norm_text(read_cell(ws, t.anchor[1] - 1, t.anchor[2])) # <<>>)
           /\ IF t.has_driver /\ t.outcome = "summed"
              THEN /\ DOMAIN drivers_totals' = DOMAIN drivers_totals \cup {d}
                   /\ Brought(drivers_totals', d)
                        = Brought(drivers_totals, d) + CellSum(ws, t, AllCellsOf(t), 1)
                   /\ Returned(drivers_totals', d)
                        = Returned(drivers_totals, d) + CellSum(ws, t, AllCellsOf(t), 2)
                   /\ \A k \in DOMAIN drivers_totals : k # d => drivers_totals'[k] = drivers_totals[k]
              ELSE drivers_totals' = drivers_totals
    ]_vars

\* C4's case: a table with a driver and two stores has been summed, with
\* different sums brought and returned.
C4_Witness ==
    /\ tables # <<>>
    /\ LET t == tables[Len(tables)]
       IN /\ t.outcome = "summed" /\ t.has_driver /\ Len(t.stores) = 2
          /\ t.driver_display \in DOMAIN drivers_totals
          /\ drivers_totals[t.driver_display].brought > drivers_totals[t.driver_display].returned
          /\ drivers_totals[t.driver_display].brought
               = stores_totals[t.stores[1].name].brought + stores_totals[t.stores[2].name].brought

NonNegative(tot) == \A key \in DOMAIN tot : tot[key].brought >= 0 /\ tot[key].returned >= 0

\* C5, as claimed: at every point of a scan both sums of every entry of the
\* stores map and of the drivers map are non-negative, whatever the cells hold.
C5_NonNegative == NonNegative(stores_totals) /\ NonNegative(drivers_totals)

NoNegativeCell ==
    \A i \in 1..Len(wb) : \A rc \in DOMAIN wb[i].cells : to_number(wb[i].cells[rc]) >= 0

\* C5, amended: the sums are non-negative at every point of a scan of a
\* workbook none of whose cells converts to a negative number.
C5_NonNegativeCells == NoNegativeCell => C5_NonNegative

\* C5's case: a scan of such a workbook has ended with amounts summed for a
\* store and for a driver.
C5_Witness ==
    /\ pc = "done" /\ NoNegativeCell
    /\ \E key \in DOMAIN stores_totals : stores_totals[key].returned > 0
    /\ \E key \in DOMAIN drivers_totals : drivers_totals[key].returned > 0

\* The subheader row holds the brought label at c and the returned label at c + 1.
LabelsAt(ws, sub_row, c) ==
    /\ norm_text(read_cell(ws, sub_row, c)) = SUB_PKA
    /\ norm_text(read_cell(ws, sub_row, c + 1)) = SUB_VAT

\* A cell's stripped text, the placeholder for an absent or empty one.
NameOrPlaceholder(v) ==
    IF v.k = "none" THEN Unnamed
    ELSE IF Strip(PyStr(v)) = <<>> THEN Unnamed ELSE Strip(PyStr(v))

\* The scan of C6: the pairs are in increasing order, three columns apart
\* or more, inside start_col..last_col, each on a label pair, and a label
\* pair that is not recorded lies in the two columns after a recorded one.
GreedyScan(ws, c) ==
    LET res == c.result
        starts == {res[i].pka_col : i \in 1..Len(res)}
    IN /\ \A i \in 1..Len(res) :
            /\ res[i].vat_col = res[i].pka_col + 1
            /\ c.start_col <= res[i].pka_col /\ res[i].vat_col <= c.last_col
            /\ LabelsAt(ws, c.sub_row, res[i].pka_col)
       /\ \A i \in 1..(Len(res) - 1) : res[i + 1].pka_col >= res[i].pka_col + 3
       /\ \A col \in c.start_col..(c.last_col - 1) :
            (LabelsAt(ws, c.sub_row, col) /\ col \notin starts)
            => \E p \in starts : p < col /\ col <= p + 2
       /\ ((\A col \in c.start_col..(c.last_col - 1) : ~LabelsAt(ws, c.sub_row, col))
            => res = <<>>)

\* C6: detect_store_columns is the greedy scan from start_col (a pair at c
\* iff the labels are at c and c + 1, then c + 3, else c + 1, until
\* c > last_col - 1), and each pair's name is the stripped merge-resolved
\* header text at pka_col, the placeholder when that is empty or absent.
C6_Detect ==
    call.fn = "detect_store_columns" =>
        /\ GreedyScan(wb[1], call)
        /\ \A i \in 1..Len(call.result) :
             call.result[i].name
               = NameOrPlaceholder(read_cell(wb[1], call.hdr_row, call.result[i].pka_col))

\* What the code keeps of C6: the scan, and the names of header cells other
\* than the number 0.
C6_ScanAndNonZeroNames ==
    call.fn = "detect_store_columns" =>
        /\ GreedyScan(wb[1], call)
        /\ \A i \in 1..Len(call.result) :
             LET v == read_cell(wb[1], call.hdr_row, call.result[i].pka_col)
             IN call.result[i].name = IF v = Num(0) THEN Unnamed ELSE NameOrPlaceholder(v)

\* dd.mm.yyyy of a date.
TwoDigits(n) == <<Digits[(n \div 10) + 1], Digits[(n % 10) + 1]>>
FourDigits(n) == TwoDigits(n \div 100) \o TwoDigits(n % 100)
DateName(dt) == TwoDigits(dt.d) \o <<".">> \o TwoDigits(dt.m) \o <<".">> \o FourDigits(dt.y)

\* The calendar dates from date_from to date_to, both included.
DatesInRange ==
    {dt \in [y : date_from.y..date_to.y, m : 1..12, d : 1..31] :
        dt.d <= DaysIn(dt.y, dt.m) /\ DateLE(date_from, dt) /\ DateLE(dt, date_to)}

\* The names of the workbook's sheets, from the i-th, that are the
\* DD.MM.YYYY of a date of the range.
RECURSIVE DatedFrom(_)
DatedFrom(i) ==
    IF i > Len(wb) THEN <<>>
    ELSE IF \E dt \in DatesInRange : DateName(dt) = wb[i].name
         THEN <<wb[i].name>> \o DatedFrom(i + 1)
         ELSE DatedFrom(i + 1)

IsPrefix(s, q) == Len(s) <= Len(q) /\ SubSeq(q, 1, Len(s)) = s

\* C7: the sheets the anchor finder is run on are, in workbook order, exactly
\* the sheets named by a valid DD.MM.YYYY date of date_from..date_to: no
\* other sheet is visited at any point, all of them have been visited when
\* the scan ends, and sheets_scanned is their number.
C7_VisitsSelected ==
    pc \in {"anchor", "done", "error"} =>
        /\ IsPrefix(visited, DatedFrom(1))
        /\ (pc \in {"done", "error"} => visited = DatedFrom(1))
        /\ (pc = "done" => result.meta.sheets_scanned = Len(visited))

\* What the code keeps of C7: the selection, and the visits of a scan that
\* returns.
C7_SelectionAndReturn ==
    pc \in {"anchor", "done", "error"} =>
        /\ sheets = DatedFrom(1)
        /\ IsPrefix(visited, sheets)
        /\ (pc = "done" => visited = sheets /\ result.meta.sheets_scanned = Len(visited))

\* The anchor being processed is one for which the column-block detector
\* returns no store pair, or whose data extent ends above its first data row.
NothingToSum ==
    LET ws == SheetOf(sheets[si])
        a == anchors[ai]
    IN \/ detect_store_columns(ws, a[1] - 1, a[1], a[2] + 2, LastCol(ws)) = <<>>
       \/ data_row_end(ws, a[2], a[1] + 1, LastRow(ws)) < a[1] + 1

\* C8: processing such an anchor leaves the stores map and the drivers map
\* as they are (no key made, no sum changed), raises nothing, and the scan
\* goes on to the next anchor or the end of the sheet.
C8_SkipLeavesTotals ==
    [][(pc = "anchor" /\ ai <= Len(anchors) /\ NothingToSum)
       => /\ stores_totals' = stores_totals
          /\ drivers_totals' = drivers_totals
          /\ pc' = "anchor" /\ ai' = ai + 1
    ]_vars

\* What the code keeps of C8: the same of an anchor below row 1.
C8_SkipBelowRowOne ==
    [][(pc = "anchor" /\ ai <= Len(anchors) /\ NothingToSum /\ anchors[ai][1] > 1)
       => /\ stores_totals' = stores_totals
          /\ drivers_totals' = drivers_totals
          /\ pc' = "anchor" /\ ai' = ai + 1
          /\ tables'[Len(tables')].outcome \in {"no stores", "no rows"}
    ]_vars

Overlap(a, b) ==
    /\ a.min_row <= b.max_row /\ b.min_row <= a.max_row
    /\ a.min_col <= b.max_col /\ b.min_col <= a.max_col
Disjoint(merged) ==
    \A i, j \in 1..Len(merged) : i # j => ~Overlap(merged[i], merged[j])
Unmerged(ws, row, col) ==
    \A i \in 1..Len(ws.merged) :
        ~(row \in ws.merged[i].min_row..ws.merged[i].max_row
          /\ col \in ws.merged[i].min_col..ws.merged[i].max_col)

\* The result of the call resolves to itself, and is the coordinate asked
\* for when that is in no merged region.
ResolvedOnce ==
    /\ cell_top_left_of_merge(wb[1], call.result[1], call.result[2]) = call.result
    /\ (Unmerged(wb[1], call.row, call.col) => call.result = <<call.row, call.col>>)

\* C9, as claimed: for any list of merged regions and any coordinate,
\* cell_top_left_of_merge of its own result is that result, and the result
\* of an unmerged coordinate is the coordinate.
C9_Idempotent == call.fn = "cell_top_left_of_merge" => ResolvedOnce

\* C9, amended: the same for any list of merged regions no two of which
\* overlap.
C9_IdempotentDisjoint ==
    (call.fn = "cell_top_left_of_merge" /\ Disjoint(wb[1].merged)) => ResolvedOnce

\* C9's case: with two disjoint regions declared, the call was made on the
\* top-left cell of the second one, and on a cell inside it.
C9_Witness ==
    /\ call.fn = "cell_top_left_of_merge"
    /\ Len(wb[1].merged) = 2 /\ Disjoint(wb[1].merged)
    /\ call.result = <<wb[1].merged[2].min_row, wb[1].merged[2].min_col>>
    /\ call.result = <<call.row, call.col>>

\* The calls (1, N), ..., (n, N).
Calls(n, N) == [i \in 1..n |-> <<i, N>>]

\* The calls made so far are (1, N), (2, N), ... in order, one per finished
\* sheet: none for the sheet being scanned, and all N once the maps are
\* returned.
ProgressInStep ==
    /\ progress = Calls(Len(progress), Len(sheets))
    /\ (pc \in {"sheet", "anchor"} => Len(progress) = si - 1)
    /\ (result.returned => Len(progress) = Len(sheets))

\* C10: a scan that selects N sheets calls the progress callback exactly N
\* times, with (1, N), ..., (N, N) in that order, each call after a sheet's
\* anchors have all been processed and before the next sheet is started, and
\* returns the totals maps only after the N-th call.
C10_Progress ==
    pc \in {"sheet", "anchor", "done", "error"} =>
        /\ ProgressInStep
        /\ (pc \in {"done", "error"} => Len(progress) = Len(sheets))

\* What the code keeps of C10: the order and the places of the calls, and
\* all N of them in a scan that returns.
C10_ProgressUntilRaise ==
    pc \in {"sheet", "anchor", "done", "error"} =>
        /\ ProgressInStep
        /\ Len(progress) <= Len(sheets)
        /\ (pc = "done" => result.returned /\ Len(progress) = Len(sheets))

\* The tables of the sheet being scanned that were summed for a driver.
Credited == {i \in 1..Len(tables) : tables[i].outcome = "summed" /\ tables[i].has_driver}

\* The cell above the anchor of the i-th table of the sheet being scanned.
DriverRaw(i) == read_cell(SheetOf(sheets[si]), tables[i].anchor[1] - 1, tables[i].anchor[2])

\* C11: every key of the drivers map is a non-empty string: a table credited
\* to a driver (the cell above its anchor is non-empty after normalization)
\* is credited under the non-empty stripped text of that cell, whether the
\* cell holds a number, the number 0 included, or text.
C11_DriverKeys ==
    /\ \A key \in DOMAIN drivers_totals : key # <<>>
    /\ pc \in {"anchor", "error"} =>
         \A i \in Credited :
            /\ tables[i].driver_display = Strip(PyStr(DriverRaw(i)))
            /\ tables[i].driver_display # <<>>
            /\ tables[i].driver_display \in DOMAIN drivers_totals

\* What the code keeps of C11: the key is the non-empty stripped text of the
\* cell unless the cell holds the number 0, and then it is the empty string.
C11_DriverKeysButZero ==
    /\ (<<>> \in DOMAIN drivers_totals =>
          \E n \in 1..Len(wb) : \E c \in DOMAIN wb[n].cells : wb[n].cells[c] = Num(0))
    /\ pc \in {"anchor", "error"} =>
         \A i \in Credited :
            /\ tables[i].driver_display \in DOMAIN drivers_totals
            /\ IF DriverRaw(i) = Num(0)
               THEN tables[i].driver_display = <<>>
               ELSE /\ tables[i].driver_display = Strip(PyStr(DriverRaw(i)))
                    /\ tables[i].driver_display # <<>>

====
